---------------------------- MODULE Spec2Model ----------------------------
(***************************************************************************)
(* Model of r03-criacao-pagina-html---coautoria-das-publicacoes.py: the    *)
(* GEXF -> HTML pipeline (main, build_graph, linear_color,                 *)
(* compute_common_neighbors_table, graph_to_embeddable_json).              *)
(*                                                                         *)
(* Texts (Python str) are sequences of one-character strings, ordered by   *)
(* code point as Python orders them.  Numbers are fixed-point: a Python    *)
(* float is held in tenths (3.5 is 35), a Python int as itself, and NaN is *)
(* a value of its own that is neither less than, greater than nor equal to *)
(* any float, as in IEEE 754.                                              *)
(***************************************************************************)
EXTENDS Integers, Sequences, FiniteSets, TLC

VARIABLES pc, env, gexf, G, bg, data, html_str, rendered, out, lc, runs

vars == <<pc, env, gexf, G, bg, data, html_str, rendered, out, lc, runs>>

-----------------------------------------------------------------------------
(* Bounds of the model.                                                    *)

\* longest edge list drawn for the topology graphs
MaxEdges == 3

\* largest connectivity bound (vmin, vmax) drawn for linear_color alone
MaxConex == 3

-----------------------------------------------------------------------------
(* Python values.                                                          *)

Absent == [k |-> "absent", v |-> 0, s |-> <<>>]
None == [k |-> "None", v |-> 0, s |-> <<>>]
NaN == [k |-> "nan", v |-> 0, s |-> <<>>]
IntVal(n) == [k |-> "int", v |-> n, s |-> <<>>]
FloatVal(t) == [k |-> "float", v |-> t, s |-> <<>>]
StrVal(s) == [k |-> "str", v |-> 0, s |-> s]

\* the outcome of a call that may raise
Ok(x) == [ok |-> TRUE, val |-> x]
Raise == [ok |-> FALSE, val |-> None]

Digits == <<"0", "1", "2", "3", "4", "5", "6", "7", "8", "9">>
IsDigit(c) == \E i \in 1..10 : Digits[i] = c
DigitVal(c) == (CHOOSE i \in 1..10 : Digits[i] = c) - 1

\* code point of a character, for the ordering of str
CharCode(c) ==
    CASE c = " " -> 32
      [] c = "," -> 44
      [] c = "-" -> 45
      [] c = "." -> 46
      [] IsDigit(c) -> 48 + DigitVal(c)
      [] c = "A" -> 65
      [] c = "B" -> 66
      [] c = "C" -> 67
      [] c = "a" -> 97
      [] c = "b" -> 98
      [] c = "c" -> 99
      [] c = "d" -> 100
      [] c = "n" -> 110
      [] c = "|" -> 124

\* s < t for two str: the first differing character decides, a proper
\* prefix is smaller
RECURSIVE TextLt(_, _)
TextLt(s, t) ==
    IF t = <<>> THEN FALSE
    ELSE IF s = <<>> THEN TRUE
    ELSE IF Head(s) = Head(t) THEN TextLt(Tail(s), Tail(t))
    ELSE CharCode(Head(s)) < CharCode(Head(t))

TextLe(s, t) == s = t \/ TextLt(s, t)

\* sorted([s, t]) for two str
SortedPair(s, t) == IF TextLt(t, s) THEN <<t, s>> ELSE <<s, t>>

\* s.replace(",", ".")
ReplaceComma(s) == [i \in DOMAIN s |-> IF s[i] = "," THEN "." ELSE s[i]]

AllDigits(s) == \A i \in DOMAIN s : IsDigit(s[i])

RECURSIVE DigitsVal(_)
DigitsVal(s) ==
    IF s = <<>> THEN 0 ELSE 10 * DigitsVal(SubSeq(s, 1, Len(s) - 1)) + DigitVal(s[Len(s)])

RECURSIVE NatToText(_)
NatToText(n) ==
    IF n < 10 THEN <<Digits[n + 1]>> ELSE NatToText(n \div 10) \o <<Digits[(n % 10) + 1]>>

Abs(n) == IF n < 0 THEN -n ELSE n

\* truncation toward zero of a float held in tenths
Trunc(t) == IF t >= 0 THEN t \div 10 ELSE -((-t) \div 10)

\* the sign prefix of a numeric literal: <<sign, rest>>
SplitSign(s) ==
    IF s # <<>> /\ Head(s) = "-" THEN <<-1, Tail(s)>> ELSE <<1, s>>

\* int(s) for a str: an optional sign and decimal digits
ParseIntText(s) ==
    LET sg == SplitSign(s)[1]
        r == SplitSign(s)[2]
    IN  IF r # <<>> /\ AllDigits(r) THEN Ok(IntVal(sg * DigitsVal(r))) ELSE Raise

DotAt(s) == IF \E i \in DOMAIN s : s[i] = "." THEN CHOOSE i \in DOMAIN s : s[i] = "." ELSE 0

\* float(s) for a str: an optional sign, then "nan", or digits with an
\* optional "." and fraction; the fraction is kept to its first digit
ParseFloatText(s) ==
    LET sg == SplitSign(s)[1]
        r == SplitSign(s)[2]
        d == DotAt(r)
        ip == IF d = 0 THEN r ELSE SubSeq(r, 1, d - 1)
        fp == IF d = 0 THEN <<>> ELSE SubSeq(r, d + 1, Len(r))
    IN  IF r = <<"n", "a", "n">> THEN Ok(NaN)
        ELSE IF AllDigits(ip) /\ AllDigits(fp) /\ (ip # <<>> \/ fp # <<>>)
             THEN Ok(FloatVal(sg * (10 * DigitsVal(ip)
                                     + (IF fp = <<>> THEN 0 ELSE DigitVal(fp[1])))))
             ELSE Raise

\* str(x)
PyStr(x) ==
    CASE x.k = "str" -> x.s
      [] x.k = "int" -> (IF x.v < 0 THEN <<"-">> ELSE <<>>) \o NatToText(Abs(x.v))
      [] x.k = "float" -> (IF x.v < 0 THEN <<"-">> ELSE <<>>)
                            \o NatToText(Abs(x.v) \div 10) \o <<".">>
                            \o <<Digits[(Abs(x.v) % 10) + 1]>>
      [] x.k = "nan" -> <<"n", "a", "n">>
      [] OTHER -> <<"N", "o", "n", "e">>

\* int(x): raises on NaN, on None and on a str that is no integer literal
PyInt(x) ==
    CASE x.k = "int" -> Ok(x)
      [] x.k = "float" -> Ok(IntVal(Trunc(x.v)))
      [] x.k = "str" -> ParseIntText(x.s)
      [] OTHER -> Raise

\* float(x)
PyFloat(x) ==
    CASE x.k = "int" -> Ok(FloatVal(10 * x.v))
      [] x.k = "float" -> Ok(x)
      [] x.k = "nan" -> Ok(x)
      [] x.k = "str" -> ParseFloatText(x.s)
      [] OTHER -> Raise

\* truthiness of a value, as used by "x or 1"
Truthy(x) ==
    CASE x.k = "int" -> x.v # 0
      [] x.k = "float" -> x.v # 0
      [] x.k = "nan" -> TRUE
      [] x.k = "str" -> x.s # <<>>
      [] OTHER -> FALSE

-----------------------------------------------------------------------------
(* The palette and linear_color.                                           *)

PALETTE ==
    <<"#5e4fa2", "#3288bd", "#66c2a5", "#abdda4", "#e6f598",
      "#fee08b", "#fdae61", "#f46d43", "#d53e4f", "#9e0142">>

\* index (from 0) of a palette entry
PaletteIndex(c) == (CHOOSE i \in DOMAIN PALETTE : PALETTE[i] = c) - 1

\* round(n / d) for n >= 0, d > 0: Python rounds a half to the even integer
RoundHalfEven(n, d) ==
    LET q == n \div d
        r == n % d
    IN  IF 2 * r < d THEN q
        ELSE IF 2 * r > d THEN q + 1
        ELSE IF q % 2 = 0 THEN q ELSE q + 1

\* float(value) raises inside linear_color: the call has no handler
LinearColorRaises(value) == value.k # "None" /\ ~PyFloat(value).ok

\* linear_color with the value scaled by vmax instead of vmax - vmin
LinearColorWrongRange(value, vmin, vmax, palette) ==
    IF value.k = "None" \/ PyFloat(value).val.k = "nan" THEN palette[1]
    ELSE IF vmax <= vmin THEN palette[1]
    ELSE LET num == PyFloat(value).val.v - 10 * vmin
             den == 10 * (IF vmax > 0 THEN vmax ELSE 1)
             n01 == IF num < 0 THEN 0 ELSE IF num > den THEN den ELSE num
             idx == RoundHalfEven(n01 * (Len(palette) - 1), den)
             cl == IF idx < 0 THEN 0
                   ELSE IF idx >= Len(palette) THEN Len(palette) - 1 ELSE idx
         IN  palette[cl + 1]

\* linear_color(value, vmin, vmax, palette) when it returns; vmin and vmax
\* are ints, t is the fraction num / den
LinearColor(value, vmin, vmax, palette) ==
    IF value.k = "None" \/ PyFloat(value).val.k = "nan" THEN palette[1]
    ELSE IF vmax <= vmin THEN palette[1]
    ELSE LET num == PyFloat(value).val.v - 10 * vmin
             den == 10 * (vmax - vmin)
             n01 == IF num < 0 THEN 0 ELSE IF num > den THEN den ELSE num
             idx == RoundHalfEven(n01 * (Len(palette) - 1), den)
             cl == IF idx < 0 THEN 0
                   ELSE IF idx >= Len(palette) THEN Len(palette) - 1 ELSE idx
         IN  palette[cl + 1]

-----------------------------------------------------------------------------
(* The graph: nodes in iteration order with their attribute dicts, edges   *)
(* in iteration order with their weight attribute.                         *)

NoColor == "absent"

NodeData(label, conex, tot, coa, prop) ==
    [label |-> label, Conexoes |-> conex, Publicacoes_totais |-> tot,
     Publicacoes_em_coautoria |-> coa, Proporcao_da_coautoria_Fiocruz |-> prop,
     x |-> Absent, y |-> Absent, color |-> NoColor]

Edge(u, v, w) == [u |-> u, v |-> v, weight |-> w]

Graph(nodes, dat, edges, directed) ==
    [nodes |-> nodes, data |-> dat, edges |-> edges, directed |-> directed]

NoGraph == Graph(<<>>, <<>>, <<>>, FALSE)

SeqMin(s) == CHOOSE m \in {s[i] : i \in DOMAIN s} : \A i \in DOMAIN s : m <= s[i]
SeqMax(s) == CHOOSE m \in {s[i] : i \in DOMAIN s} : \A i \in DOMAIN s : m >= s[i]

\* G.degree[n]: the edge ends at n, a self-loop counting twice
Degree(g, n) ==
    Cardinality({i \in DOMAIN g.edges : g.edges[i].u = n})
    + Cardinality({i \in DOMAIN g.edges : g.edges[i].v = n})

\* G.neighbors(n): the successors in a directed graph
Neighbors(g, n) ==
    {g.edges[i].v : i \in {j \in DOMAIN g.edges : g.edges[j].u = n}}
    \cup (IF g.directed THEN {}
          ELSE {g.edges[i].u : i \in {j \in DOMAIN g.edges : g.edges[j].v = n}})

\* nx.kamada_kawai_layout(G, scale=1.0): one position per node, a function
\* of the graph alone; the coordinates are abstract
KamadaKawaiLayout(g) ==
    [i \in DOMAIN g.nodes |-> <<FloatVal(i), FloatVal(Degree(g, g.nodes[i]))>>]

\* lines 64-74: the int read from "Conexões", or None
ReadConexoes(raw) ==
    IF raw.k = "absent" THEN Raise
    ELSE IF PyInt(raw).ok THEN PyInt(raw)
    ELSE LET f == PyFloat(StrVal(ReplaceComma(PyStr(raw))))
         IN  IF f.ok /\ PyInt(f.val).ok THEN PyInt(f.val) ELSE Raise

\* the fallback of the other counts, 0, used for "Conexões" too
CollectConexoesZero(g, i) ==
    IF ReadConexoes(g.data[i].Conexoes).ok
    THEN ReadConexoes(g.data[i].Conexoes).val.v
    ELSE 0

\* lines 75-78: the value collected for node i (the degree when None)
CollectConexoes(g, i) ==
    IF ReadConexoes(g.data[i].Conexoes).ok
    THEN ReadConexoes(g.data[i].Conexoes).val.v
    ELSE Degree(g, g.nodes[i])

\* line 77: the attribute is overwritten only on the fallback
StoredConexoes(g, i) ==
    IF ReadConexoes(g.data[i].Conexoes).ok
    THEN g.data[i].Conexoes
    ELSE IntVal(Degree(g, g.nodes[i]))

\* line 87: the value handed to linear_color
ColorInput(g, i) == StoredConexoes(g, i)

\* lines 91-97: the weight written back on an edge
NormWeight(w) ==
    LET w0 == IF w.k = "absent" THEN IntVal(1) ELSE w
        f == PyFloat(StrVal(ReplaceComma(PyStr(w0))))
    IN  IF f.ok THEN f.val ELSE FloatVal(10)

\* build_graph after read_gexf: the locals and the graph it returns, or
\* raised when linear_color raises for some node
BuildGraph(g) ==
    LET N == DOMAIN g.nodes
        pos == KamadaKawaiLayout(g)
        conexoes_values == [i \in N |-> CollectConexoes(g, i)]
        vmin == IF conexoes_values # <<>> THEN SeqMin(conexoes_values) ELSE 0
        vmax == IF conexoes_values # <<>> THEN SeqMax(conexoes_values) ELSE 1
        raised == \E i \in N : LinearColorRaises(ColorInput(g, i))
        dat == [i \in N |->
                  [g.data[i] EXCEPT
                     !.Conexoes = StoredConexoes(g, i),
                     !.x = pos[i][1],
                     !.y = pos[i][2],
                     !.color = IF raised THEN NoColor
                               ELSE LinearColor(ColorInput(g, i), vmin, vmax, PALETTE)]]
        edges == [i \in DOMAIN g.edges |->
                    [g.edges[i] EXCEPT !.weight = NormWeight(g.edges[i].weight)]]
    IN  [raised |-> raised,
         conexoes_values |-> conexoes_values, vmin |-> vmin, vmax |-> vmax,
         G |-> Graph(g.nodes, dat, edges, g.directed)]

-----------------------------------------------------------------------------
(* compute_common_neighbors_table.                                         *)

\* float(d.get("weight", 1)): the "or 1" left out
EdgeWeightNoOr(w) ==
    LET w0 == IF w.k = "absent" THEN IntVal(1) ELSE w
    IN  PyFloat(w0).val

\* line 117 and line 192: float(d.get("weight", 1) or 1)
EdgeWeight(w) ==
    LET w0 == IF w.k = "absent" THEN IntVal(1) ELSE w
        w1 == IF Truthy(w0) THEN w0 ELSE IntVal(1)
    IN  PyFloat(w1).val

\* line 113: the key of a pair already sorted
PairKey(a, b) == a \o <<"|", "|">> \o b

\* lines 139-142: id -> label, the id itself when there is no label
IdToLabel(g) ==
    [n \in {g.nodes[i] : i \in DOMAIN g.nodes} |->
       LET i == CHOOSE j \in DOMAIN g.nodes : g.nodes[j] = n
       IN  IF g.data[i].label.k = "absent" THEN n ELSE PyStr(g.data[i].label)]

\* the intersection with a and b left in
CommonNeighborsWithEnds(g, a, b) == Neighbors(g, a) \cap Neighbors(g, b)

\* line 118: the neighbours a and b share, without a and b
CommonNeighbors(g, a, b) == (Neighbors(g, a) \cap Neighbors(g, b)) \ {a, b}

\* lines 119-126: the row of the pair (a, b)
EdgeRow(g, id_to_label, a, b, w) ==
    LET la == id_to_label[a]
        lb == id_to_label[b]
    IN  [aresta |-> SortedPair(la, lb)[1] \o <<",", " ">> \o SortedPair(la, lb)[2],
         colabs |-> EdgeWeight(w),
         comuns |-> Cardinality(CommonNeighbors(g, a, b))]

\* lines 109-126: the loop over the first i edges; seen holds the keys
RECURSIVE EdgeLoop(_, _, _)
EdgeLoop(g, id_to_label, i) ==
    IF i = 0 THEN [seen |-> {}, rows |-> <<>>]
    ELSE LET acc == EdgeLoop(g, id_to_label, i - 1)
             e == g.edges[i]
             ab == SortedPair(e.u, e.v)
             key == PairKey(ab[1], ab[2])
         IN  IF key \in acc.seen THEN acc
             ELSE [seen |-> acc.seen \cup {key},
                   rows |-> Append(acc.rows,
                                   EdgeRow(g, id_to_label, ab[1], ab[2], e.weight))]

\* x == y and x < y on floats: NaN is unordered
FloatEq(x, y) == x.k = "float" /\ y.k = "float" /\ x.v = y.v
FloatLt(x, y) == x.k = "float" /\ y.k = "float" /\ x.v < y.v

\* line 128: key(r1) < key(r2) for the tuples (-colabs, -comuns, aresta);
\* a tuple comparison is decided by the first items that are not ==
KeyLt(r1, r2) ==
    IF ~FloatEq(r1.colabs, r2.colabs) THEN FloatLt(r2.colabs, r1.colabs)
    ELSE IF r1.comuns # r2.comuns THEN r2.comuns < r1.comuns
    ELSE TextLt(r1.aresta, r2.aresta)

Reverse(s) == [i \in DOMAIN s |-> s[Len(s) + 1 - i]]

\* list.sort on a short list: count_run finds the leading run, strictly
\* descending (then reversed) or non-descending
RunIsDescending(s) == KeyLt(s[2], s[1])

RunLength(s) ==
    IF RunIsDescending(s)
    THEN CHOOSE n \in 2..Len(s) :
           /\ \A j \in 2..n : KeyLt(s[j], s[j - 1])
           /\ (n = Len(s) \/ ~KeyLt(s[n + 1], s[n]))
    ELSE CHOOSE n \in 2..Len(s) :
           /\ \A j \in 2..n : ~KeyLt(s[j], s[j - 1])
           /\ (n = Len(s) \/ KeyLt(s[n + 1], s[n]))

\* binarysort: where the pivot goes among s[l..r-1], after its equals
RECURSIVE BinaryPosition(_, _, _, _)
BinaryPosition(s, pivot, l, r) ==
    IF l >= r THEN l
    ELSE LET p == l + ((r - l) \div 2)
         IN  IF KeyLt(pivot, s[p]) THEN BinaryPosition(s, pivot, l, p)
             ELSE BinaryPosition(s, pivot, p + 1, r)

RECURSIVE BinarySort(_, _)
BinarySort(s, start) ==
    IF start > Len(s) THEN s
    ELSE LET pos == BinaryPosition(s, s[start], 1, start)
         IN  BinarySort(SubSeq(s, 1, pos - 1) \o <<s[start]>>
                          \o SubSeq(s, pos, start - 1)
                          \o SubSeq(s, start + 1, Len(s)),
                        start + 1)

\* rows.sort(key=...)
SortRows(s) ==
    IF Len(s) < 2 THEN s
    ELSE LET n == RunLength(s)
             run == IF RunIsDescending(s) THEN Reverse(SubSeq(s, 1, n))
                    ELSE SubSeq(s, 1, n)
         IN  BinarySort(run \o SubSeq(s, n + 1, Len(s)), n + 1)

ComputeCommonNeighborsTable(g, id_to_label) ==
    SortRows(EdgeLoop(g, id_to_label, Len(g.edges)).rows)

-----------------------------------------------------------------------------
(* graph_to_embeddable_json.                                               *)

\* lines 155-159; an absent attribute arrives as the default 0
ToInt(x) ==
    LET x0 == IF x.k = "absent" THEN IntVal(0) ELSE x
        f == PyFloat(StrVal(ReplaceComma(PyStr(x0))))
    IN  IF PyInt(x0).ok THEN PyInt(x0).val
        ELSE IF f.ok /\ PyInt(f.val).ok THEN PyInt(f.val).val
        ELSE IntVal(0)

\* lines 160-162; an absent attribute arrives as the default None
ToFloat(x) ==
    LET x0 == IF x.k = "absent" THEN None ELSE x
        f == PyFloat(StrVal(ReplaceComma(PyStr(x0))))
    IN  IF f.ok THEN f.val ELSE None

\* lines 144-185: the entry of node i in graph.nodes
NodeEntry(g, i, node_radius_const) ==
    LET d == g.data[i]
    IN  [id |-> g.nodes[i],
         label |-> IF d.label.k = "absent" THEN g.nodes[i] ELSE PyStr(d.label),
         x |-> PyFloat(IF d.x.k = "absent" THEN FloatVal(0) ELSE d.x).val,
         y |-> PyFloat(IF d.y.k = "absent" THEN FloatVal(0) ELSE d.y).val,
         fx |-> None, fy |-> None,
         r |-> PyFloat(node_radius_const).val,
         color |-> IF d.color = NoColor THEN "#1f77b4" ELSE d.color,
         Publicacoes_totais |-> ToInt(d.Publicacoes_totais),
         Publicacoes_em_coautoria |-> ToInt(d.Publicacoes_em_coautoria),
         Conexoes |-> ToInt(d.Conexoes),
         Proporcao_da_coautoria_Fiocruz |-> ToFloat(d.Proporcao_da_coautoria_Fiocruz)]

\* lines 188-194
LinkEntry(e) ==
    [source |-> e.u, target |-> e.v, weight |-> EdgeWeight(e.weight), color |-> "#aaa"]

\* the row with the id in place of the label
VertexRowIdAsNome(n) ==
    [id |-> n.id, nome |-> n.id,
     Publicacoes_totais |-> n.Publicacoes_totais,
     Publicacoes_em_coautoria |-> n.Publicacoes_em_coautoria,
     Conexoes |-> n.Conexoes,
     Proporcao_da_coautoria_Fiocruz |-> n.Proporcao_da_coautoria_Fiocruz,
     cor |-> n.color]

\* lines 201-210
VertexRow(n) ==
    [id |-> n.id, nome |-> n.label,
     Publicacoes_totais |-> n.Publicacoes_totais,
     Publicacoes_em_coautoria |-> n.Publicacoes_em_coautoria,
     Conexoes |-> n.Conexoes,
     Proporcao_da_coautoria_Fiocruz |-> n.Proporcao_da_coautoria_Fiocruz,
     cor |-> n.color]

GraphToEmbeddableJson(g, node_radius_const) ==
    LET nodes == [i \in DOMAIN g.nodes |-> NodeEntry(g, i, node_radius_const)]
        links == [i \in DOMAIN g.edges |-> LinkEntry(g.edges[i])]
    IN  [graph |-> [nodes |-> nodes, links |-> links],
         vertex_table |-> [i \in DOMAIN nodes |-> VertexRow(nodes[i])],
         edge_table |-> ComputeCommonNeighborsTable(g, IdToLabel(g))]

NoData ==
    [graph |-> [nodes |-> <<>>, links |-> <<>>], vertex_table |-> <<>>, edge_table |-> <<>>]

-----------------------------------------------------------------------------
(* The inputs: attribute encodings a GEXF file can carry, each listed with *)
(* the number it denotes (in tenths), and the graphs built from them.      *)

Num(raw, t) == [raw |-> raw, kind |-> "num", num |-> t]
NotNum(raw, kind) == [raw |-> raw, kind |-> kind, num |-> 0]

Encodings ==
    { NotNum(Absent, "none"),
      Num(IntVal(0), 0),
      Num(IntVal(2), 20),
      Num(FloatVal(5), 5),
      Num(FloatVal(-15), -15),
      Num(FloatVal(50), 50),
      NotNum(NaN, "nan"),
      Num(StrVal(<<"0">>), 0),
      Num(StrVal(<<"3">>), 30),
      Num(StrVal(<<"1", ".", "5">>), 15),
      Num(StrVal(<<"3", ",", "5">>), 35),
      Num(StrVal(<<"0", ",", "0">>), 0),
      Num(StrVal(<<"-", "1", ",", "5">>), -15),
      NotNum(StrVal(<<"a", "b", "c">>), "none"),
      NotNum(StrVal(<<"n", "a", "n">>), "nan") }

RawValues == {e.raw : e \in Encodings}

\* what a listed encoding denotes
Denotes(raw) == CHOOSE e \in Encodings : e.raw = raw

IdA == <<"a">>
IdB == <<"b">>
IdC == <<"c">>
IdAP == <<"a", "|", "|">>
IdPB == <<"|", "|", "b">>

Plain == NodeData(Absent, Absent, Absent, Absent, Absent)

Nodes3 == <<IdA, IdB, IdC>>

NodeIndex(nodes, n) == CHOOSE i \in DOMAIN nodes : nodes[i] = n

\* G.edges(data=True) lists the edges node by node in node order, parallel
\* edges together, and in an undirected graph from the endpoint met first:
\* whether e may follow the edges es
MayFollow(nodes, es, e, directed) ==
    /\ es # <<>> =>
         NodeIndex(nodes, es[Len(es)].u) <= NodeIndex(nodes, e.u)
    /\ (\E i \in DOMAIN es : es[i].u = e.u /\ es[i].v = e.v)
         => es[Len(es)].u = e.u /\ es[Len(es)].v = e.v
    /\ ~directed => NodeIndex(nodes, e.u) <= NodeIndex(nodes, e.v)

\* the edge lists of exactly n edges, in iteration order
RECURSIVE EdgeListsOfLen(_, _, _, _)
EdgeListsOfLen(nodes, weights, directed, n) ==
    IF n = 0 THEN {<<>>}
    ELSE LET ids == {nodes[i] : i \in DOMAIN nodes}
             choices == {Edge(u, v, w) : u \in ids, v \in ids, w \in weights}
             shorter == EdgeListsOfLen(nodes, weights, directed, n - 1)
         IN  {Append(q[1], q[2]) :
                q \in {p \in shorter \X choices :
                         MayFollow(nodes, p[1], p[2], directed)}}

\* the edge lists of at most maxLen edges: the prefixes of the longest
EdgeLists(nodes, weights, directed, maxLen) ==
    {SubSeq(es, 1, n) : es \in EdgeListsOfLen(nodes, weights, directed, maxLen),
                        n \in 0..maxLen}

Plain3 == [i \in 1..3 |-> Plain]

\* graphs that vary the edge list (directed or not, parallel edges and
\* self-loops included), the weights absent or 5.0
TopologyGraphs ==
    {Graph(Nodes3, Plain3, p[1], p[2]) :
       p \in {q \in EdgeLists(Nodes3, {Absent, FloatVal(50)}, TRUE, MaxEdges) \X BOOLEAN :
                q[2] \/ \A i \in DOMAIN q[1] :
                          NodeIndex(Nodes3, q[1][i].u) <= NodeIndex(Nodes3, q[1][i].v)}}

\* graphs that vary the weight encodings of two edges
WeightGraphs ==
    {Graph(Nodes3, Plain3, <<Edge(IdA, IdB, w1), Edge(IdA, IdC, w2)>>, FALSE) :
       w1 \in RawValues, w2 \in RawValues}

\* graphs that vary the "Conexões" encoding of every node
ConexGraphs ==
    {Graph(Nodes3,
           [i \in 1..3 |-> NodeData(Absent, c[i], Absent, Absent, Absent)],
           <<Edge(IdA, IdB, Absent), Edge(IdA, IdC, Absent)>>, FALSE) :
       c \in [1..3 -> RawValues]}

\* graphs that vary the other numeric attributes of one node
AttrGraphs ==
    {Graph(Nodes3,
           [i \in 1..3 |-> IF i = 1 THEN NodeData(Absent, Absent, tot, coa, prop)
                           ELSE Plain],
           <<Edge(IdA, IdB, Absent)>>, FALSE) :
       tot \in RawValues, coa \in {Absent, IntVal(2)}, prop \in RawValues}

Labels == {Absent, StrVal(<<"A">>), StrVal(<<"B">>), StrVal(<<"a">>)}

\* graphs that vary the labels
LabelGraphs ==
    {Graph(Nodes3,
           [i \in 1..3 |-> NodeData(l[i], IF i = 1 THEN IntVal(0) ELSE Absent,
                                    Absent, Absent, Absent)],
           <<Edge(IdA, IdB, Absent), Edge(IdA, IdC, FloatVal(50)),
             Edge(IdB, IdC, Absent)>>, FALSE) :
       l \in [1..3 -> Labels]}

Nodes4 == <<IdA, IdAP, IdB, IdPB>>

\* graphs whose node ids contain the two characters of the key separator
IdGraphs ==
    {Graph(Nodes4, [i \in 1..4 |-> Plain], es, FALSE) :
       es \in EdgeLists(Nodes4, {Absent}, FALSE, 2)}

\* the single-node graphs, "Conexões" in every encoding
SingleGraphs ==
    {Graph(<<IdA>>, <<NodeData(Absent, c, Absent, Absent, Absent)>>, <<>>, FALSE) :
       c \in RawValues}

\* the graph with no node, and one node with a self-loop
SmallGraphs ==
    {NoGraph,
     Graph(<<IdA>>, <<Plain>>, <<>>, FALSE),
     Graph(<<IdA>>, <<Plain>>, <<Edge(IdA, IdA, Absent)>>, FALSE)}

-----------------------------------------------------------------------------
(* main.                                                                   *)

NoLocals == [called |-> FALSE, conexoes_values |-> <<>>, vmin |-> 0, vmax |-> 0]

NoCall ==
    [a |-> None, b |-> None, vmin |-> 0, vmax |-> 0,
     color_a |-> NoColor, color_b |-> NoColor]

NoOutput ==
    [file |-> "untouched", stdout |-> "", stderr |-> "", exit |-> 0, err |-> "none"]

\* an uncaught exception: traceback on the error stream, exit status 1
Uncaught(o, exc) == [o EXCEPT !.stderr = "Traceback", !.exit = 1, !.err = exc]

\* the state as main starts: the path names no file, a file that is no
\* GEXF document, or the file of a graph
Init ==
    /\ pc = "check"
    /\ \/ env = [isfile |-> FALSE, wellformed |-> FALSE] /\ gexf = NoGraph
       \/ env = [isfile |-> TRUE, wellformed |-> FALSE] /\ gexf = NoGraph
       \/ /\ env = [isfile |-> TRUE, wellformed |-> TRUE]
          /\ \/ gexf \in TopologyGraphs
             \/ gexf \in WeightGraphs
             \/ gexf \in ConexGraphs
             \/ gexf \in AttrGraphs
             \/ gexf \in LabelGraphs
             \/ gexf \in IdGraphs
             \/ gexf \in SingleGraphs
             \/ gexf \in SmallGraphs
    /\ G = NoGraph
    /\ bg = NoLocals
    /\ data = NoData
    /\ html_str = NoData
    /\ rendered = FALSE
    /\ out = NoOutput
    /\ lc = NoCall
    /\ runs = <<>>

\* the check with the message printed and sys.exit(1) left out
MainCheckFileNoExit ==
    /\ pc = "check"
    /\ IF ~env.isfile
       THEN out' = [out EXCEPT !.stderr = "Arquivo nao encontrado"]
       ELSE UNCHANGED out
    /\ pc' = "build"
    /\ UNCHANGED <<env, gexf, G, bg, data, html_str, rendered, lc, runs>>

\* lines 634-640
MainCheckFile ==
    /\ pc = "check"
    /\ IF ~env.isfile
       THEN /\ out' = [out EXCEPT !.stderr = "Arquivo nao encontrado", !.exit = 1]
            /\ pc' = "exit"
       ELSE /\ pc' = "build"
            /\ UNCHANGED out
    /\ UNCHANGED <<env, gexf, G, bg, data, html_str, rendered, lc, runs>>

\* lines 642-648: read_gexf, then the rest of build_graph
MainBuildGraph ==
    /\ pc = "build"
    /\ IF ~env.wellformed
       THEN /\ bg' = [NoLocals EXCEPT !.called = TRUE]
            /\ out' = Uncaught(out, "read_gexf")
            /\ pc' = "raised"
            /\ UNCHANGED G
       ELSE LET r == BuildGraph(gexf)
            IN  /\ bg' = [called |-> TRUE, conexoes_values |-> r.conexoes_values,
                          vmin |-> r.vmin, vmax |-> r.vmax]
                /\ IF r.raised
                   THEN /\ out' = Uncaught(out, "ValueError")
                        /\ pc' = "raised"
                        /\ UNCHANGED G
                   ELSE /\ G' = r.G
                        /\ pc' = "tables"
                        /\ UNCHANGED out
    /\ UNCHANGED <<env, gexf, data, html_str, rendered, lc, runs>>

\* line 650 with the weight of each link stored back on its edge
MainGraphToJsonStoresWeight ==
    /\ pc = "tables"
    /\ data' = GraphToEmbeddableJson(G, FloatVal(80))
    /\ G' = [G EXCEPT !.edges =
                [i \in DOMAIN G.edges |->
                   [G.edges[i] EXCEPT !.weight = EdgeWeight(G.edges[i].weight)]]]
    /\ pc' = "render"
    /\ UNCHANGED <<env, gexf, bg, html_str, rendered, out, lc, runs>>

\* line 650, with the default node_radius 8.0
MainGraphToJson ==
    /\ pc = "tables"
    /\ data' = GraphToEmbeddableJson(G, FloatVal(80))
    /\ pc' = "render"
    /\ UNCHANGED <<env, gexf, G, bg, html_str, rendered, out, lc, runs>>

\* lines 652-656: the three json.dumps and html_template; the document is
\* the fixed template around the three serialized parts
MainRender ==
    /\ pc = "render"
    /\ html_str' = data
    /\ rendered' = TRUE
    /\ pc' = "open"
    /\ UNCHANGED <<env, gexf, G, bg, data, out, lc, runs>>

\* line 658: open(out_html, "w") creates or truncates the file, or raises
MainOpen ==
    /\ pc = "open"
    /\ \E ok \in BOOLEAN :
         IF ok
         THEN /\ out' = [out EXCEPT !.file = "truncated"]
              /\ pc' = "write"
         ELSE /\ out' = Uncaught(out, "OSError in open")
              /\ pc' = "raised"
    /\ UNCHANGED <<env, gexf, G, bg, data, html_str, rendered, lc, runs>>

\* line 659: f.write(html_str) and the close, or a failed write
MainWrite ==
    /\ pc = "write"
    /\ \E ok \in BOOLEAN :
         IF ok
         THEN /\ out' = [out EXCEPT !.file = "written"]
              /\ pc' = "print"
         ELSE /\ out' = Uncaught([out EXCEPT !.file = "partial"], "OSError in write")
              /\ pc' = "raised"
    /\ UNCHANGED <<env, gexf, G, bg, data, html_str, rendered, lc, runs>>

\* line 661
MainPrint ==
    /\ pc = "print"
    /\ out' = [out EXCEPT !.stdout = "Arquivo gerado"]
    /\ pc' = "done"
    /\ UNCHANGED <<env, gexf, G, bg, data, html_str, rendered, lc, runs>>

Next ==
    \/ MainCheckFile
    \/ MainBuildGraph
    \/ MainGraphToJson
    \/ MainRender
    \/ MainOpen
    \/ MainWrite
    \/ MainPrint

Spec == Init /\ [][Next]_vars

-----------------------------------------------------------------------------
(* linear_color on its own: two values and a range, then the two calls.    *)

ColorValues ==
    {IntVal(n) : n \in -1..(MaxConex + 1)}
    \cup {FloatVal(t) : t \in -5..(10 * MaxConex + 5)}

InitColor ==
    /\ pc = "linear_color"
    /\ env = [isfile |-> FALSE, wellformed |-> FALSE]
    /\ gexf = NoGraph
    /\ G = NoGraph
    /\ bg = NoLocals
    /\ data = NoData
    /\ html_str = NoData
    /\ rendered = FALSE
    /\ out = NoOutput
    /\ \E a \in ColorValues, b \in ColorValues, lo \in -1..MaxConex, hi \in -1..MaxConex :
         /\ PyFloat(a).val.v <= PyFloat(b).val.v
         /\ lc = [NoCall EXCEPT !.a = a, !.b = b, !.vmin = lo, !.vmax = hi]
    /\ runs = <<>>

CallLinearColor ==
    /\ pc = "linear_color"
    /\ lc' = [lc EXCEPT !.color_a = LinearColor(lc.a, lc.vmin, lc.vmax, PALETTE),
                        !.color_b = LinearColor(lc.b, lc.vmin, lc.vmax, PALETTE)]
    /\ pc' = "returned"
    /\ UNCHANGED <<env, gexf, G, bg, data, html_str, rendered, out, runs>>

NextColor == CallLinearColor

SpecColor == InitColor /\ [][NextColor]_vars

-----------------------------------------------------------------------------
(* The pipeline run twice on one input file, each run with its own command *)
(* line and its own interpreter process.                                   *)

\* parse_args with no option given; the floats in tenths
DefaultArgs ==
    [seed |-> 42, k |-> 5, iterations |-> 400, scale |-> 7, node_radius |-> 80]

\* the layout options of another command line
OtherLayout == [DefaultArgs EXCEPT !.seed = 7, !.k = 10, !.iterations = 50, !.scale = 10]

\* command lines: the defaults, other layout options, another radius, both
ArgChoices ==
    {DefaultArgs,
     OtherLayout,
     [DefaultArgs EXCEPT !.node_radius = 50],
     [OtherLayout EXCEPT !.node_radius = 50]}

\* the string-hash seed of a process: it fixes the order in which a set of
\* strings would be iterated
HashSeeds == {0, 1}

\* build_graph with the layout of the line commented out,
\* nx.spring_layout(G, seed=seed, k=k, iterations=iterations, scale=scale)
BuildGraphSpringLayout(g, seed, k, iterations, scale) ==
    LET r == BuildGraph(g)
    IN  [r EXCEPT !.G.data =
           [i \in DOMAIN r.G.data |->
              [r.G.data[i] EXCEPT !.x = FloatVal(seed + i * scale),
                                  !.y = FloatVal(k + iterations)]]]

\* build_graph(gexf_path, seed, k, iterations, scale): the four are bound
\* and never read, the layout call gets the graph and scale=1.0
BuildGraphCall(g, seed, k, iterations, scale) == BuildGraph(g)

\* the log entry of a run: its command line and hash seed, and what
\* build_graph (r) and graph_to_embeddable_json gave, or that it raised
RunRecord(args, hashseed, r) ==
    [args |-> args, hashseed |-> hashseed, raised |-> r.raised,
     G |-> IF r.raised THEN NoGraph ELSE r.G,
     data |-> IF r.raised THEN NoData
              ELSE GraphToEmbeddableJson(r.G, FloatVal(args.node_radius))]

\* the pipeline with the edge rows left in the iteration order of a set of
\* strings instead of sorted
PipelineSetOrder(g, args, hashseed) ==
    LET p == RunRecord(args, hashseed,
                       BuildGraphCall(g, args.seed, args.k, args.iterations, args.scale))
    IN  [p EXCEPT !.data.edge_table = IF hashseed = 0 THEN @ ELSE Reverse(@)]

\* lines 642-650 in a process with the given hash seed: the sets of the
\* code (neigh, seen, the common neighbours) are only tested for
\* membership, intersected and counted, never iterated
Pipeline(g, args, hashseed) ==
    RunRecord(args, hashseed,
              BuildGraphCall(g, args.seed, args.k, args.iterations, args.scale))

InitRuns ==
    /\ pc = "run"
    /\ env = [isfile |-> TRUE, wellformed |-> TRUE]
    /\ \/ gexf \in LabelGraphs
       \/ gexf \in {g \in WeightGraphs : g.edges[2].weight = Absent}
       \/ gexf \in SingleGraphs
       \/ gexf \in SmallGraphs
    /\ G = NoGraph
    /\ bg = NoLocals
    /\ data = NoData
    /\ html_str = NoData
    /\ rendered = FALSE
    /\ out = NoOutput
    /\ lc = NoCall
    /\ runs = <<>>

\* one run of the pipeline on the input file, logged with its command line
RunPipeline ==
    /\ pc = "run"
    /\ \E args \in ArgChoices, hashseed \in HashSeeds :
         runs' = Append(runs, Pipeline(gexf, args, hashseed))
    /\ G' = runs'[Len(runs')].G
    /\ data' = runs'[Len(runs')].data
    /\ pc' = IF runs = <<>> THEN "run" ELSE "compared"
    /\ UNCHANGED <<env, gexf, bg, html_str, rendered, out, lc>>

NextRuns == RunPipeline

SpecRuns == InitRuns /\ [][NextRuns]_vars

-----------------------------------------------------------------------------
(* The claims.                                                             *)

\* build_graph has returned
GraphBuilt ==
    \/ pc \in {"tables", "render", "open", "write", "print", "done"}
    \/ pc = "raised" /\ out.err \in {"OSError in open", "OSError in write"}

\* graph_to_embeddable_json has returned
TablesBuilt == GraphBuilt /\ pc # "tables"

InputEdges == {gexf.edges[i] : i \in DOMAIN gexf.edges}

\* the display string of an input edge: its two labels (an id where there
\* is no label) in order, joined by ", "
LabelOf(n) ==
    LET d == gexf.data[NodeIndex(gexf.nodes, n)]
    IN  IF d.label.k = "absent" THEN n ELSE d.label.s

DisplayOf(e) ==
    IF TextLe(LabelOf(e.u), LabelOf(e.v))
    THEN LabelOf(e.u) \o <<",", " ">> \o LabelOf(e.v)
    ELSE LabelOf(e.v) \o <<",", " ">> \o LabelOf(e.u)

\* edge i is the first edge listed for its unordered pair
FirstOfPair(i) ==
    \A j \in 1..(i - 1) :
      {gexf.edges[j].u, gexf.edges[j].v} # {gexf.edges[i].u, gexf.edges[i].v}

\* C1: the edge table has as many rows as the input edges have distinct
\* unordered endpoint pairs.
C1_RowPerUnorderedPair ==
    TablesBuilt =>
      Len(data.edge_table) = Cardinality({{e.u, e.v} : e \in InputEdges})

\* C2: once the graph is loaded, no attribute encoding makes build_graph or
\* graph_to_embeddable_json raise: the run gets past table construction.
C2_NoAttributeRaises ==
    (env.wellformed /\ pc \notin {"check", "build", "tables"}) => TablesBuilt

\* C3: every node's color is linear_color of the integer connectivity
\* collected for it (the Conexões of its row) over the global minimum and
\* maximum; rows with equal Conexões carry equal colors.
C3_ColorFromIntegerConexoes ==
    TablesBuilt =>
      LET rows == data.vertex_table
      IN  /\ \A i \in DOMAIN rows :
               /\ rows[i].Conexoes = IntVal(bg.conexoes_values[i])
               /\ rows[i].cor = LinearColor(rows[i].Conexoes, bg.vmin, bg.vmax, PALETTE)
          /\ \A i, j \in DOMAIN rows :
               rows[i].Conexoes = rows[j].Conexoes => rows[i].cor = rows[j].cor

InRange(x) ==
    /\ lc.vmin < lc.vmax
    /\ 10 * lc.vmin <= PyFloat(x).val.v
    /\ PyFloat(x).val.v <= 10 * lc.vmax

\* C4: for vmin < vmax and a <= b within [vmin, vmax] the palette index of
\* linear_color(a) is at most that of linear_color(b); it is 0 at vmin and
\* 9 at vmax.
C4_LinearColorMonotonic ==
    (pc = "returned" /\ InRange(lc.a) /\ InRange(lc.b)
       /\ PyFloat(lc.a).val.v <= PyFloat(lc.b).val.v) =>
      /\ PaletteIndex(lc.color_a) <= PaletteIndex(lc.color_b)
      /\ PyFloat(lc.a).val.v = 10 * lc.vmin => PaletteIndex(lc.color_a) = 0
      /\ PyFloat(lc.b).val.v = 10 * lc.vmax => PaletteIndex(lc.color_b) = 9

C4_Witness ==
    /\ pc = "returned" /\ InRange(lc.a) /\ InRange(lc.b)
    /\ PyFloat(lc.a).val.v < PyFloat(lc.b).val.v
    /\ 0 < PaletteIndex(lc.color_a)
    /\ PaletteIndex(lc.color_a) < PaletteIndex(lc.color_b)
    /\ PaletteIndex(lc.color_b) < 9

\* the integer a number in tenths truncates to, toward zero
TowardZero(t) ==
    CHOOSE z \in -Abs(t)..Abs(t) :
      /\ z * t >= 0
      /\ 10 * Abs(z) <= Abs(t)
      /\ Abs(t) < 10 * (Abs(z) + 1)

\* the connectivity the claim gives input node i: the number its
\* "Conexões" denotes, truncated, or the edge ends at the node
ExpectedConexoes(i) ==
    LET d == Denotes(gexf.data[i].Conexoes)
    IN  IF d.kind = "num" THEN TowardZero(d.num)
        ELSE Cardinality({j \in DOMAIN gexf.edges : gexf.edges[j].u = gexf.nodes[i]})
             + Cardinality({j \in DOMAIN gexf.edges : gexf.edges[j].v = gexf.nodes[i]})

\* C5: the connectivity collected for a node, used for the minimum and
\* maximum and reported in its row, is the parsed integer (truncated toward
\* zero) when "Conexões" is parseable and the node's degree otherwise.
C5_ConexoesOrDegree ==
    (env.wellformed /\ bg.called) =>
      /\ DOMAIN bg.conexoes_values = DOMAIN gexf.nodes
      /\ \A i \in DOMAIN gexf.nodes : bg.conexoes_values[i] = ExpectedConexoes(i)
      /\ gexf.nodes # <<>> =>
           /\ \E i \in DOMAIN gexf.nodes : bg.vmin = ExpectedConexoes(i)
           /\ \E i \in DOMAIN gexf.nodes : bg.vmax = ExpectedConexoes(i)
           /\ \A i \in DOMAIN gexf.nodes :
                bg.vmin <= ExpectedConexoes(i) /\ ExpectedConexoes(i) <= bg.vmax
      /\ TablesBuilt =>
           \A i \in DOMAIN gexf.nodes :
             data.vertex_table[i].Conexoes = IntVal(ExpectedConexoes(i))

C5_Witness ==
    /\ TablesBuilt
    /\ \E i, j \in DOMAIN gexf.nodes :
         /\ gexf.data[i].Conexoes = StrVal(<<"a", "b", "c">>)
         /\ data.vertex_table[i].Conexoes = IntVal(2)
         /\ gexf.data[j].Conexoes = FloatVal(-15)
         /\ data.vertex_table[j].Conexoes = IntVal(-1)

\* the weight the claim gives an edge row: the number the attribute
\* denotes, or 1 when it is absent, denotes nothing or denotes 0
ExpectedColabs(raw) ==
    LET d == Denotes(raw)
    IN  IF d.kind = "num" /\ d.num # 0 THEN FloatVal(d.num)
        ELSE IF d.kind = "nan" THEN NaN
        ELSE FloatVal(10)

\* C6: every edge row carries the weight of the first edge of its pair: 1
\* when the attribute is absent, unparseable or 0, else the parsed number,
\* the same for comma and dot; no row has weight 0.
C6_ColabsIsWeightOrOne ==
    TablesBuilt =>
      \A k \in DOMAIN data.edge_table :
        /\ data.edge_table[k].colabs # FloatVal(0)
        /\ \E i \in DOMAIN gexf.edges :
             /\ FirstOfPair(i)
             /\ DisplayOf(gexf.edges[i]) = data.edge_table[k].aresta
             /\ data.edge_table[k].colabs = ExpectedColabs(gexf.edges[i].weight)

C6_Witness ==
    /\ TablesBuilt
    /\ gexf.edges # <<>>
    /\ gexf.edges[1].weight = StrVal(<<"0", ",", "0">>)
    /\ \E k \in DOMAIN data.edge_table :
         /\ data.edge_table[k].aresta = DisplayOf(gexf.edges[1])
         /\ data.edge_table[k].colabs = FloatVal(10)
    /\ \E k \in DOMAIN data.edge_table : data.edge_table[k].colabs = FloatVal(35)

\* w is adjacent to u: an edge joins them (in a directed graph, an edge
\* from u to w, as G.neighbors has it)
AdjacentTo(w, u) ==
    \E e \in InputEdges :
      \/ e.u = u /\ e.v = w
      \/ ~gexf.directed /\ e.u = w /\ e.v = u

SharedNeighbors(u, v) ==
    {w \in {gexf.nodes[i] : i \in DOMAIN gexf.nodes} :
       w # u /\ w # v /\ AdjacentTo(w, u) /\ AdjacentTo(w, v)}

\* C7: the comuns of the row of (u, v) is the number of nodes other than u
\* and v adjacent to both, self-loops and the edge itself notwithstanding.
C7_ComunsExcludesEndpoints ==
    TablesBuilt =>
      \A k \in DOMAIN data.edge_table :
        \E e \in InputEdges :
          /\ DisplayOf(e) = data.edge_table[k].aresta
          /\ data.edge_table[k].comuns = Cardinality(SharedNeighbors(e.u, e.v))

C7_Witness ==
    /\ TablesBuilt
    /\ \E e1, e2 \in InputEdges :
         /\ e1.u = e1.v
         /\ e2.u = e1.u /\ e2.v # e2.u
         /\ \E k \in DOMAIN data.edge_table :
              /\ data.edge_table[k].aresta = DisplayOf(e1)
              /\ data.edge_table[k].comuns = 1
         /\ \E k \in DOMAIN data.edge_table :
              /\ data.edge_table[k].aresta = DisplayOf(e2)
              /\ data.edge_table[k].comuns = 0

\* r1 may come right before r2: heavier, or as heavy with more shared
\* neighbours, or equal in both with a display string not greater
RowsInOrder(r1, r2) ==
    \/ FloatLt(r2.colabs, r1.colabs)
    \/ FloatEq(r1.colabs, r2.colabs) /\ r1.comuns > r2.comuns
    \/ /\ FloatEq(r1.colabs, r2.colabs)
       /\ r1.comuns = r2.comuns
       /\ TextLe(r1.aresta, r2.aresta)

\* C8: consecutive rows of the edge table are ordered by weight
\* descending, then shared-neighbour count descending, then display string
\* ascending.
C8_EdgeTableSorted ==
    TablesBuilt =>
      \A k \in 1..(Len(data.edge_table) - 1) :
        RowsInOrder(data.edge_table[k], data.edge_table[k + 1])

PaletteColors == {PALETTE[i] : i \in DOMAIN PALETTE}

\* C9: one node row and one graph.nodes entry per node, in node order; the
\* row's id is the node id, nome the label or else the id, cor the color
\* of the graph.nodes entry, a palette color.
C9_OneRowPerNode ==
    TablesBuilt =>
      /\ DOMAIN data.vertex_table = DOMAIN gexf.nodes
      /\ DOMAIN data.graph.nodes = DOMAIN gexf.nodes
      /\ \A i \in DOMAIN gexf.nodes :
           /\ data.vertex_table[i].id = gexf.nodes[i]
           /\ data.graph.nodes[i].id = gexf.nodes[i]
           /\ data.vertex_table[i].nome = LabelOf(gexf.nodes[i])
           /\ data.vertex_table[i].cor = data.graph.nodes[i].color
           /\ data.graph.nodes[i].color \in PaletteColors

C9_Witness ==
    /\ TablesBuilt
    /\ \E i, j \in DOMAIN gexf.nodes :
         /\ gexf.data[i].label = Absent
         /\ gexf.data[j].label = StrVal(<<"B">>)
         /\ data.vertex_table[i].nome = gexf.nodes[i]
         /\ data.vertex_table[j].nome = <<"B">>
    /\ \E i, j \in DOMAIN gexf.nodes :
         data.vertex_table[i].cor # data.vertex_table[j].cor

\* C10 as claimed: a run that ends in a failure, whatever the stage, has
\* left the output file alone.
C10_NoOutputOnAnyFailure ==
    pc \in {"exit", "raised"} => out.file = "untouched"

\* C10 as amended: a missing input ends the run with status 1 and the
\* message, build_graph not called; the output file is touched only after
\* load, layout, coloring, tables and template are done; a failure before
\* the file is opened, or of the open itself, leaves it alone; the success
\* message follows the write.
C10_OutputAfterAllStages ==
    /\ (~env.isfile /\ pc # "check") =>
         /\ pc = "exit" /\ out.exit = 1
         /\ out.stderr = "Arquivo nao encontrado"
         /\ ~bg.called
         /\ out.file = "untouched"
    /\ out.file # "untouched" =>
         /\ env.isfile /\ bg.called /\ GraphBuilt /\ TablesBuilt
         /\ rendered /\ html_str = data
    /\ (pc \in {"exit", "raised"} /\ out.err # "OSError in write") =>
         out.file = "untouched"
    /\ (pc = "raised" /\ out.err = "OSError in write") => out.file = "partial"
    /\ out.stdout # "" => out.file = "written" /\ pc = "done" /\ out.exit = 0

C10_Witness ==
    /\ pc = "raised"
    /\ out.err = "ValueError"
    /\ bg.called
    /\ out.file = "untouched"
    /\ out.exit = 1

\* every input node has the same connectivity
DegenerateRange ==
    /\ gexf.nodes # <<>>
    /\ \A i, j \in DOMAIN gexf.nodes : ExpectedConexoes(i) = ExpectedConexoes(j)

\* C11: when every node of the loaded graph has the same connectivity (the
\* single-node graph included), build_graph returns and every node has the
\* first palette entry as its color.
C11_DegenerateRangeFirstColor ==
    (env.wellformed /\ pc \notin {"check", "build"} /\ DegenerateRange) =>
      /\ GraphBuilt
      /\ \A i \in DOMAIN G.nodes : G.data[i].color = PALETTE[1]

LayoutArgsDiffer ==
    /\ runs[1].args.seed # runs[2].args.seed
    /\ runs[1].args.k # runs[2].args.k
    /\ runs[1].args.iterations # runs[2].args.iterations
    /\ runs[1].args.scale # runs[2].args.scale

=============================================================================
